---- MODULE Spec2Model ----
(***************************************************************************)
(* A model of mag_annotator/utils.py (DRAM): the process runner, the       *)
(* multi-substring search, the file merger, the downloader, the            *)
(* identifier extractors and the small string / sequence helpers.          *)
(*                                                                         *)
(* Every Python function is a frame (a record holding its arguments, its   *)
(* locals and its position pc); the logger and the filesystem are shared.  *)
(* Text is a sequence of one-character strings, so that split, strip,      *)
(* slicing and regular expressions are computed and not assumed.           *)
(***************************************************************************)
EXTENDS Integers, Sequences, FiniteSets, TLC

VARIABLES rp, mg, mf, dl, ids, uq, sx, log, fs

vars == <<rp, mg, mf, dl, ids, uq, sx, log, fs>>

(***************************************************************************)
(* Python values                                                           *)
(***************************************************************************)
\* None / a value: an optional is the empty tuple or a one-element tuple.
None == <<>>
Some(v) == <<v>>
IsNone(o) == o = <<>>
Val(o) == o[1]

\* A frame that is not running.
Idle == [pc |-> "idle"]

Range(s) == {s[i] : i \in DOMAIN s}

\* All sequences over S of length lo..hi.
SeqsOf(S, lo, hi) == UNION {[1..n -> S] : n \in lo..hi}

RECURSIVE Concat(_)
\* ''.join(parts) for a sequence of texts.
Concat(parts) ==
    IF parts = <<>> THEN <<>> ELSE Head(parts) \o Concat(Tail(parts))

(***************************************************************************)
(* Text: str methods, computed on sequences of characters.                 *)
(***************************************************************************)
Whitespace == {" ", "\t", "\n", "\r"}

\* s[i:] and s[:j] for in-range, non-negative i and j (0-based, as in Python).
From(s, i) == SubSeq(s, i + 1, Len(s))
UpTo(s, j) == SubSeq(s, 1, j)

\* The position a slice bound denotes: a negative bound counts from the end,
\* and the result is clipped to 0..len.
SliceBound(s, b) ==
    LET k == IF b < 0 THEN b + Len(s) ELSE b
    IN  IF k < 0 THEN 0 ELSE IF k > Len(s) THEN Len(s) ELSE k

\* s[start:stop], s[start:] and s[:stop]
Slice(s, start, stop) == SubSeq(s, SliceBound(s, start) + 1, SliceBound(s, stop))
SliceFrom(s, start) == SubSeq(s, SliceBound(s, start) + 1, Len(s))
SliceTo(s, stop) == SubSeq(s, 1, SliceBound(s, stop))

\* Whether sub occurs in s at 1-based position i.
OccursAt(s, sub, i) ==
    /\ i >= 1
    /\ i + Len(sub) - 1 <= Len(s)
    /\ SubSeq(s, i, i + Len(sub) - 1) = sub

\* sub in s
Contains(s, sub) == \E i \in 1..(Len(s) + 1) : OccursAt(s, sub, i)

\* The 1-based position of the first occurrence of sub in s, or 0.
Find(s, sub) ==
    IF Contains(s, sub)
    THEN CHOOSE i \in 1..(Len(s) + 1) :
            /\ OccursAt(s, sub, i)
            /\ \A j \in 1..(i - 1) : ~OccursAt(s, sub, j)
    ELSE 0

RECURSIVE Split(_, _)
\* s.split(sep) for a non-empty sep: never an empty list, ''.split(',') = [''].
Split(s, sep) ==
    LET i == Find(s, sep)
    IN  IF i = 0
        THEN <<s>>
        ELSE <<SubSeq(s, 1, i - 1)>> \o Split(SubSeq(s, i + Len(sep), Len(s)), sep)

RECURSIVE LStrip(_)
LStrip(s) ==
    IF s # <<>> /\ Head(s) \in Whitespace THEN LStrip(Tail(s)) ELSE s

RECURSIVE RStrip(_)
RStrip(s) ==
    IF s # <<>> /\ s[Len(s)] \in Whitespace THEN RStrip(SubSeq(s, 1, Len(s) - 1)) ELSE s

\* s.strip()
Strip(s) == RStrip(LStrip(s))

RECURSIVE SplitWhitespace(_)
\* s.split(): the maximal runs of non-whitespace characters.
SplitWhitespace(s) ==
    LET t == LStrip(s)
        stops == {i \in 1..Len(t) : t[i] \in Whitespace}
        n == IF stops = {} THEN Len(t)
             ELSE (CHOOSE i \in stops : \A j \in stops : i <= j) - 1
    IN  IF t = <<>>
        THEN <<>>
        ELSE <<SubSeq(t, 1, n)>> \o SplitWhitespace(SubSeq(t, n + 1, Len(t)))

RECURSIVE Join(_, _)
\* sep.join(parts)
Join(parts, sep) ==
    IF parts = <<>> THEN <<>>
    ELSE IF Len(parts) = 1 THEN parts[1]
    ELSE parts[1] \o sep \o Join(Tail(parts), sep)

\* The sequence s without the elements that fail Keep, in order.
RECURSIVE SelectIdx(_, _, _)
SelectIdx(s, keep, i) ==
    IF i > Len(s) THEN <<>>
    ELSE (IF i \in keep THEN <<s[i]>> ELSE <<>>) \o SelectIdx(s, keep, i + 1)

(***************************************************************************)
(* Logging: every record handed to a logger, in order.  A message is its   *)
(* fixed text and the values formatted into it.                            *)
(***************************************************************************)
Message(text, command, stderr, stdout) ==
    [text |-> text, command |-> command, stderr |-> stderr, stdout |-> stdout]

LogRecord(logger, level, msg) == [logger |-> logger, level |-> level, msg |-> msg]

(***************************************************************************)
(* Files: path -> None (absent) or Some(text).                             *)
(***************************************************************************)
Paths == {"A", "B", "C", "D", "E", "F", "target", "hits.txt", "out.txt", "merged"}
NoFiles == [p \in Paths |-> None]

(***************************************************************************)
(* run_process (utils.py 43-67)                                            *)
(***************************************************************************)
\* Bound on the length of the texts a generic subprocess writes.
MaxOutLen == 1

Commands == { <<"mmseqs", "createdb">>, <<"false">> }
ExitCodes == {0, 1, 2}

OutTexts == SeqsOf({"o"}, 0, MaxOutLen)
ErrTexts == SeqsOf({"e"}, 0, MaxOutLen)

Completed(rc, out, err) ==
    [kind |-> "exit", returncode |-> rc, stdout |-> out, stderr |-> err]
\* The command could not be started (FileNotFoundError, PermissionError):
\* an OSError, which is no CalledProcessError.
LaunchFailure ==
    [kind |-> "OSError", returncode |-> 0, stdout |-> <<>>, stderr |-> <<>>]

\* What subprocess.run can meet for a command other than grep.
ProcessOutcomes ==
    {LaunchFailure} \cup
    {Completed(rc, out, err) : rc \in ExitCodes, out \in OutTexts, err \in ErrTexts}

RunProcessFrame(command, shell, capture_stdout, save_output, check, stop_on_error, verbose) ==
    [pc |-> "run", command |-> command, shell |-> shell,
     capture_stdout |-> capture_stdout, save_output |-> save_output,
     check |-> check, stop_on_error |-> stop_on_error, verbose |-> verbose,
     proc |-> None, results |-> None, exc |-> "", ret |-> None]

\* The lines of a text file: its '\n'-terminated pieces, and an unterminated
\* last piece when there is one.
FileLines(text) ==
    LET parts == Split(text, <<"\n">>)
    IN  IF parts[Len(parts)] = <<>> THEN UpTo(parts, Len(parts) - 1) ELSE parts

GrepCommand(hits_file, search_against) ==
    <<"grep", "-a", "-F", "-f", hits_file, search_against>>
IsGrep(command) == Len(command) = 6 /\ command[1] = "grep"

\* grep -a -F -f hits_file search_against: prints the lines of the target that
\* contain one of the patterns (the lines of hits_file) as a substring; exits 0
\* when a line was selected, 1 when none was, 2 when a file cannot be read.
Grep(files, hits_file, search_against) ==
    IF IsNone(files[hits_file]) \/ IsNone(files[search_against])
    THEN Completed(2, <<>>, <<"e">>)
    ELSE LET patterns == FileLines(Val(files[hits_file]))
             lines == FileLines(Val(files[search_against]))
             selected == {i \in DOMAIN lines :
                            \E k \in DOMAIN patterns : Contains(lines[i], patterns[k])}
             out == Concat([i \in 1..Len(SelectIdx(lines, selected, 1)) |->
                              SelectIdx(lines, selected, 1)[i] \o <<"\n">>])
         IN  Completed(IF selected = {} THEN 1 ELSE 0, out, <<>>)

\* What subprocess.run(command) can meet.
Outcomes(command, files) ==
    IF IsGrep(command)
    THEN {Grep(files, command[5], command[6])}
    ELSE ProcessOutcomes

\* raise: the frame ends with the exception.
Raise(frame, exc) == [frame EXCEPT !.pc = "raised", !.exc = exc]

\* logger.critical(f'The subcommand {command} experienced an error')
CalledProcessErrorRecord(command) ==
    LogRecord("logger", "critical",
              Message("The subcommand {command} experienced an error",
                      Some(command), None, None))

\* logger.critical(f'The subcommand {command} experienced an error: {results.stderr}')
NonZeroExitRecord(command, results) ==
    LogRecord("logger", "critical",
              Message("The subcommand {command} experienced an error: {results.stderr}",
                      Some(command), Some(results.stderr), None))

\* logging.debug(results.stdout): the root logger, not the one passed in.
DebugStdoutRecord(results) ==
    LogRecord("root", "debug", Message("{results.stdout}", None, None, Some(results.stdout)))

\* Lines 49-55: subprocess.run under try / except CalledProcessError.
RunSubprocessWith(o) ==
    /\ rp.pc = "run"
    /\ IF o.kind = "OSError"
       THEN /\ rp' = Raise([rp EXCEPT !.proc = Some(o)], "OSError")
            /\ log' = log
       ELSE IF rp.check /\ o.returncode # 0
       THEN /\ log' = Append(log, CalledProcessErrorRecord(rp.command))
            /\ rp' = IF rp.stop_on_error
                     THEN Raise([rp EXCEPT !.proc = Some(o)], "CalledProcessError")
                     ELSE [rp EXCEPT !.pc = "returncode", !.proc = Some(o)]
       ELSE /\ rp' = [rp EXCEPT !.pc = "returncode", !.proc = Some(o), !.results = Some(o)]
            /\ log' = log
    /\ UNCHANGED <<mg, mf, dl, ids, uq, sx, fs>>

\* Lines 56-60: the exit code test; `results` is unbound when line 50 raised.
CheckReturncode ==
    /\ rp.pc = "returncode"
    /\ IF IsNone(rp.results)
       THEN /\ rp' = Raise(rp, "UnboundLocalError")
            /\ log' = log
       ELSE IF Val(rp.results).returncode # 0
       THEN /\ log' = log \o <<NonZeroExitRecord(rp.command, Val(rp.results)),
                               DebugStdoutRecord(Val(rp.results))>>
            /\ rp' = IF rp.stop_on_error
                     THEN Raise(rp, "SubprocessError")
                     ELSE [rp EXCEPT !.pc = "save"]
       ELSE /\ rp' = [rp EXCEPT !.pc = "save"]
            /\ log' = log
    /\ UNCHANGED <<mg, mf, dl, ids, uq, sx, fs>>

\* Lines 62-64: open(save_output, 'w').write(results.stdout)
SaveOutput ==
    /\ rp.pc = "save"
    /\ fs' = IF IsNone(rp.save_output)
             THEN fs
             ELSE [fs EXCEPT ![Val(rp.save_output)] = Some(Val(rp.results).stdout)]
    /\ rp' = [rp EXCEPT !.pc = "return"]
    /\ UNCHANGED <<mg, mf, dl, ids, uq, sx, log>>

\* Lines 66-67: the captured stdout, or None by falling off the end.
ReturnStdout ==
    /\ rp.pc = "return"
    /\ rp' = [rp EXCEPT !.pc = "returned",
                        !.ret = IF rp.capture_stdout
                                THEN Some(Val(rp.results).stdout)
                                ELSE None]
    /\ UNCHANGED <<mg, mf, dl, ids, uq, sx, log, fs>>

RunSubprocess ==
    /\ rp.pc = "run"
    /\ \E o \in Outcomes(rp.command, fs) : RunSubprocessWith(o)

InitRunProcess ==
    /\ rp \in {RunProcessFrame(c, sh, cap, so, ch, st, FALSE) :
                 c \in Commands, sh \in BOOLEAN, cap \in BOOLEAN,
                 so \in {None, Some("out.txt")}, ch \in BOOLEAN, st \in BOOLEAN}
    /\ mg = Idle /\ mf = Idle /\ dl = Idle /\ ids = Idle /\ uq = Idle /\ sx = Idle
    /\ log = <<>>
    /\ fs = NoFiles

NextRunProcess ==
    \/ RunSubprocess
    \/ CheckReturncode
    \/ SaveOutput
    \/ ReturnStdout

SpecRunProcess == InitRunProcess /\ [][NextRunProcess]_vars

\* run_process has ended, by returning or by raising.
RunProcessEnded == rp.pc \in {"returned", "raised"}

\* The subprocess of this call exited with a non-zero code.
NonZeroExit ==
    /\ ~IsNone(rp.proc)
    /\ Val(rp.proc).kind = "exit"
    /\ Val(rp.proc).returncode # 0

\* The command could not be launched.
LaunchFailed == ~IsNone(rp.proc) /\ Val(rp.proc).kind = "OSError"

\* The logger passed in got a critical record naming the command.
CriticalLogged ==
    \E i \in DOMAIN log :
        /\ log[i].logger = "logger"
        /\ log[i].level = "critical"
        /\ log[i].msg.command = Some(rp.command)

\* ... and that record holds the captured stderr too.
CriticalLoggedWithStderr ==
    \E i \in DOMAIN log :
        /\ log[i].logger = "logger"
        /\ log[i].level = "critical"
        /\ log[i].msg.command = Some(rp.command)
        /\ log[i].msg.stderr = Some(Val(rp.proc).stderr)

\* C1: with stop_on_error set and either value of check, a call whose
\* subprocess exits non-zero ends by raising, and a critical record holding
\* both the command and the captured stderr was logged before the raise.
C1_NonZeroExitRaisesAfterLog ==
    (RunProcessEnded /\ rp.stop_on_error /\ NonZeroExit)
        => (rp.pc = "raised" /\ CriticalLoggedWithStderr)

\* C2: with stop_on_error off, every process failure (non-zero exit with
\* check off or on, launch failure) is logged at critical severity and the
\* call goes on: it raises nothing, writes the captured stdout to save_output
\* when one is given, and returns the captured stdout under capture_stdout.
C2_SuppressedFailureContinues ==
    (RunProcessEnded /\ ~rp.stop_on_error /\ (NonZeroExit \/ LaunchFailed))
        => /\ rp.pc = "returned"
           /\ CriticalLogged
           /\ ~IsNone(rp.save_output)
                 => fs[Val(rp.save_output)] = Some(Val(rp.proc).stdout)
           /\ rp.capture_stdout => rp.ret = Some(Val(rp.proc).stdout)

(***************************************************************************)
(* multigrep (utils.py 78-88)                                              *)
(***************************************************************************)
\* Bound on the number of search terms.
MaxTerms == 2

SearchTerms == { <<"k">>, <<"m">>, <<"z">> }
\* "k x\nm y\n", "k x\nk y\n" (one first token on two lines),
\* " k x \nm\n" (blanks around a line) and the empty file.
Targets ==
    { <<"k", " ", "x", "\n", "m", " ", "y", "\n">>,
      <<"k", " ", "x", "\n", "k", " ", "y", "\n">>,
      <<" ", "k", " ", "x", " ", "\n", "m", "\n">>,
      <<>> }

MultigrepFrame(search_terms, search_against, split_char, output) ==
    [pc |-> "write_hits", search_terms |-> search_terms,
     search_against |-> search_against, split_char |-> split_char,
     hits_file |-> output, exc |-> "", ret |-> None]

RECURSIVE DictOf(_, _)
\* {key(i): i for i in items}: a later item replaces an earlier one's entry.
DictOf(items, d) ==
    IF items = <<>> THEN d
    ELSE LET i == Head(items)
             k == SplitWhitespace(i)[1]
         IN  DictOf(Tail(items),
                    [x \in DOMAIN d \cup {k} |-> IF x = k THEN i ELSE d[x]])

EmptyDict == [x \in {} |-> <<>>]

\* Lines 85-88 on the text run_process returned.
ProcessResults(results, split_char) ==
    LET pieces == Split(Strip(results), split_char)
        kept == SelectIdx(pieces, {i \in DOMAIN pieces : Len(pieces[i]) > 0}, 1)
        processed_results == [i \in DOMAIN kept |-> Strip(kept[i])]
        nonblank == SelectIdx(processed_results,
                              {i \in DOMAIN processed_results : processed_results[i] # <<>>}, 1)
    IN  DictOf(nonblank, EmptyDict)

\* Lines 81-83: the search terms, one per line, into hits.txt.
WriteHitsFile ==
    /\ mg.pc = "write_hits"
    /\ fs' = [fs EXCEPT ![mg.hits_file] = Some(Join(mg.search_terms, <<"\n">>) \o <<"\n">>)]
    /\ mg' = [mg EXCEPT !.pc = "call"]
    /\ UNCHANGED <<rp, mf, dl, ids, uq, sx, log>>

\* Line 84: the call of run_process, with its defaults (check=False,
\* stop_on_error=True, save_output=None, shell=False).
CallGrep ==
    /\ mg.pc = "call"
    /\ rp' = RunProcessFrame(GrepCommand(mg.hits_file, mg.search_against),
                             FALSE, TRUE, None, FALSE, TRUE, FALSE)
    /\ mg' = [mg EXCEPT !.pc = "wait"]
    /\ UNCHANGED <<mf, dl, ids, uq, sx, log, fs>>

\* Lines 84-88 after run_process ended: its exception passes through
\* multigrep, its return value is parsed into the mapping.
ParseHits ==
    /\ mg.pc = "wait"
    /\ rp.pc \in {"returned", "raised"}
    /\ mg' = IF rp.pc = "raised"
             THEN Raise(mg, rp.exc)
             ELSE [mg EXCEPT !.pc = "returned",
                             !.ret = Some(ProcessResults(Val(rp.ret), mg.split_char))]
    /\ UNCHANGED <<rp, mf, dl, ids, uq, sx, log, fs>>

InitMultigrep ==
    /\ mg \in {MultigrepFrame(t, "target", <<"\n">>, "hits.txt") :
                 t \in SeqsOf(SearchTerms, 0, MaxTerms)}
    /\ fs \in {[NoFiles EXCEPT !["target"] = Some(c)] : c \in Targets}
    /\ rp = Idle /\ mf = Idle /\ dl = Idle /\ ids = Idle /\ uq = Idle /\ sx = Idle
    /\ log = <<>>

NextMultigrep ==
    \/ WriteHitsFile
    \/ CallGrep
    \/ RunSubprocess
    \/ CheckReturncode
    \/ SaveOutput
    \/ ReturnStdout
    \/ ParseHits

SpecMultigrep == InitMultigrep /\ [][NextMultigrep]_vars
\* The lines of the target that contain one of the search terms.
MatchingLines ==
    LET lines == FileLines(Val(fs[mg.search_against]))
    IN  {lines[i] : i \in {j \in DOMAIN lines :
                             \E k \in DOMAIN mg.search_terms :
                                Contains(lines[j], mg.search_terms[k])}}

\* C6: for any search terms and any target, multigrep returns normally with a
\* mapping that has an entry for every matching line, keyed by the line's
\* first whitespace-delimited token and valued by the line; terms that match
\* nothing are absent, and when no term matches at all the mapping is empty.
C6_MultigrepReturnsMapping ==
    mg.pc \in {"returned", "raised"}
        => /\ mg.pc = "returned"
           /\ DOMAIN Val(mg.ret) =
                 {SplitWhitespace(l)[1] : l \in {m \in MatchingLines : Strip(m) # <<>>}}
           /\ \A k \in DOMAIN Val(mg.ret) :
                 \E l \in MatchingLines :
                    SplitWhitespace(l)[1] = k /\ Val(mg.ret)[k] = Strip(l)

(***************************************************************************)
(* merge_files (utils.py 91-100)                                           *)
(***************************************************************************)
\* Bound on the number of files merged in one call.
MaxFiles == 2

\* A: "h\na\n"  B: "h\nb\n"  C: "h\nc" (last line unterminated)
\* D: "h\n" (header only)  E: "g\ne\n" (another header)  F: "h" (no newline)
InputFiles == {"A", "B", "C", "D", "E", "F"}
InputContents ==
    [p \in Paths |->
       CASE p = "A" -> Some(<<"h", "\n", "a", "\n">>)
         [] p = "B" -> Some(<<"h", "\n", "b", "\n">>)
         [] p = "C" -> Some(<<"h", "\n", "c">>)
         [] p = "D" -> Some(<<"h", "\n">>)
         [] p = "E" -> Some(<<"g", "\n", "e", "\n">>)
         [] p = "F" -> Some(<<"h">>)
         [] OTHER -> None]

\* f.readline(): up to and including the first '\n', or all of the text.
ReadLine(text) ==
    LET i == Find(text, <<"\n">>)
    IN  IF i = 0 THEN text ELSE UpTo(text, i)

\* f.read() after n characters were read.
ReadRest(text, n) == From(text, n)

\* A merger that forgets to skip the header line of an input.
FileBodyKeepingHeader(text, has_header) == ReadRest(text, 0)

\* Lines 98-100: what one input file adds to the output.
FileBody(text, has_header) ==
    IF has_header THEN ReadRest(text, Len(ReadLine(text))) ELSE ReadRest(text, 0)

MergeFrame(files_to_merge, outfile, has_header) ==
    [pc |-> "open", files_to_merge |-> files_to_merge, outfile |-> outfile,
     has_header |-> has_header, file |-> 1, exc |-> ""]

\* Line 93: open(outfile, 'w') creates or truncates the output.
OpenOutfile ==
    /\ mf.pc = "open"
    /\ fs' = [fs EXCEPT ![mf.outfile] = Some(<<>>)]
    /\ mf' = [mf EXCEPT !.pc = "header"]
    /\ UNCHANGED <<rp, mg, dl, ids, uq, sx, log>>

\* Lines 94-95: the first line of files_to_merge[0]; IndexError on an empty list.
WriteHeader ==
    /\ mf.pc = "header"
    /\ IF ~mf.has_header
       THEN /\ mf' = [mf EXCEPT !.pc = "loop"]
            /\ fs' = fs
       ELSE IF mf.files_to_merge = <<>>
       THEN /\ mf' = Raise(mf, "IndexError")
            /\ fs' = fs
       ELSE /\ fs' = [fs EXCEPT ![mf.outfile] =
                        Some(Val(@) \o ReadLine(Val(fs[mf.files_to_merge[1]])))]
            /\ mf' = [mf EXCEPT !.pc = "loop"]
    /\ UNCHANGED <<rp, mg, dl, ids, uq, sx, log>>

\* Lines 96-100, one iteration: the file, less its first line under has_header.
AppendFile ==
    /\ mf.pc = "loop"
    /\ mf.file <= Len(mf.files_to_merge)
    /\ fs' = [fs EXCEPT ![mf.outfile] =
                Some(Val(@) \o FileBody(Val(fs[mf.files_to_merge[mf.file]]), mf.has_header))]
    /\ mf' = [mf EXCEPT !.file = @ + 1]
    /\ UNCHANGED <<rp, mg, dl, ids, uq, sx, log>>

\* The loop is exhausted and the output is closed.
CloseOutfile ==
    /\ mf.pc = "loop"
    /\ mf.file > Len(mf.files_to_merge)
    /\ mf' = [mf EXCEPT !.pc = "returned"]
    /\ UNCHANGED <<rp, mg, dl, ids, uq, sx, log, fs>>

InitMergeFiles ==
    /\ mf \in {MergeFrame(f, "merged", h) :
                 f \in SeqsOf(InputFiles, 0, MaxFiles), h \in BOOLEAN}
    /\ fs = InputContents
    /\ rp = Idle /\ mg = Idle /\ dl = Idle /\ ids = Idle /\ uq = Idle /\ sx = Idle
    /\ log = <<>>

NextMergeFiles ==
    \/ OpenOutfile
    \/ WriteHeader
    \/ AppendFile
    \/ CloseOutfile

SpecMergeFiles == InitMergeFiles /\ [][NextMergeFiles]_vars

\* The first line of a text, without its terminator.
FirstLineText(text) ==
    IF "\n" \in Range(text)
    THEN CHOOSE p \in {UpTo(text, n) : n \in 0..Len(text)} :
            /\ "\n" \notin Range(p)
            /\ Len(p) < Len(text)
            /\ text[Len(p) + 1] = "\n"
    ELSE text

\* The first line of a text as it stands in the file, terminator included.
HeaderLine(text) ==
    IF "\n" \in Range(text) THEN FirstLineText(text) \o <<"\n">> ELSE text

\* What follows the first line.
AfterHeader(text) == CHOOSE r \in {From(text, n) : n \in 0..Len(text)} :
                        HeaderLine(text) \o r = text

\* The input files of the call share their first line.
SharedHeader ==
    \A i, j \in DOMAIN mf.files_to_merge :
        FirstLineText(Val(InputContents[mf.files_to_merge[i]])) =
        FirstLineText(Val(InputContents[mf.files_to_merge[j]]))

MaxBody == 2

Urls == {"http://a", "http://b"}
\* 'h', 'i' and a byte that is no UTF-8.
Bytes == {104, 105, 255}
Bodies == SeqsOf(Bytes, 0, MaxBody)
HttpStatus == {404, 500}

\* What urlopen / urlretrieve can meet: a body, an HTTP error status, or no
\* connection at all (URLError, of which HTTPError is a subclass).
NetOutcomes ==
    {[kind |-> "ok", body |-> b, code |-> 200] : b \in Bodies} \cup
    {[kind |-> "HTTPError", body |-> <<>>, code |-> c] : c \in HttpStatus} \cup
    {[kind |-> "URLError", body |-> <<>>, code |-> 0]}

\* bytes.decode('utf-8') on the bytes of the model.
ValidUtf8(body) == \A i \in DOMAIN body : body[i] < 128
Utf8Decode(body) ==
    [i \in DOMAIN body |-> IF body[i] = 104 THEN "h" ELSE "i"]

DownloadFrame(url, output_file, verbose) ==
    [pc |-> "print", url |-> url, output_file |-> output_file, verbose |-> verbose,
     printed |-> <<>>, net |-> None, exc |-> "", ret |-> None]

\* logger.critical(f"Something went wrong with the download of the url: {url}")
DownloadErrorRecord(url) ==
    LogRecord("logger", "critical",
              [text |-> "Something went wrong with the download of the url: {url}",
               url |-> url])

\* Lines 13-14
PrintDownloading ==
    /\ dl.pc = "print"
    /\ dl' = [dl EXCEPT !.pc = "fetch",
                        !.printed = IF dl.verbose THEN <<dl.url>> ELSE <<>>]
    /\ UNCHANGED <<rp, mg, mf, ids, uq, sx, log, fs>>

\* Lines 15-16: urlopen(url).read().decode('utf-8'), outside any try.
FetchToString(o) ==
    /\ IsNone(dl.output_file)
    /\ log' = log
    /\ fs' = fs
    /\ dl' = IF o.kind # "ok"
             THEN Raise([dl EXCEPT !.net = Some(o)], o.kind)
             ELSE IF ~ValidUtf8(o.body)
             THEN Raise([dl EXCEPT !.net = Some(o)], "UnicodeDecodeError")
             ELSE [dl EXCEPT !.pc = "returned", !.net = Some(o),
                             !.ret = Some(Utf8Decode(o.body))]

\* Lines 17-22: urlretrieve(url, output_file) under try / except HTTPError.
FetchToFile(o) ==
    /\ ~IsNone(dl.output_file)
    /\ IF o.kind = "ok"
       THEN /\ fs' = [fs EXCEPT ![Val(dl.output_file)] = Some(o.body)]
            /\ log' = log
            /\ dl' = [dl EXCEPT !.pc = "returned", !.net = Some(o)]
       ELSE IF o.kind = "HTTPError"
       THEN /\ log' = Append(log, DownloadErrorRecord(dl.url))
            /\ fs' = fs
            /\ dl' = Raise([dl EXCEPT !.net = Some(o)], "HTTPError")
       ELSE /\ log' = log
            /\ fs' = fs
            /\ dl' = Raise([dl EXCEPT !.net = Some(o)], o.kind)

Fetch ==
    /\ dl.pc = "fetch"
    /\ \E o \in NetOutcomes : FetchToString(o) \/ FetchToFile(o)
    /\ UNCHANGED <<rp, mg, mf, ids, uq, sx>>

InitDownload ==
    /\ dl \in {DownloadFrame(u, o, v) :
                 u \in Urls, o \in {None, Some("out.txt")}, v \in BOOLEAN}
    /\ fs = NoFiles
    /\ rp = Idle /\ mg = Idle /\ mf = Idle /\ ids = Idle /\ uq = Idle /\ sx = Idle
    /\ log = <<>>

NextDownload ==
    \/ PrintDownloading
    \/ Fetch

SpecDownload == InitDownload /\ [][NextDownload]_vars

\* The fetch of this call failed (an HTTP error status, or no connection).
FetchFailed == ~IsNone(dl.net) /\ Val(dl.net).kind \in {"HTTPError", "URLError"}

\* C7: in both modes (to a string, to a file) a fetch failure is logged
\* through the logger and the same error is then raised to the caller.
C7_FetchFailureLoggedThenRaised ==
    (dl.pc \in {"returned", "raised"} /\ FetchFailed)
        => /\ dl.pc = "raised"
           /\ dl.exc = Val(dl.net).kind
           /\ \E i \in DOMAIN log : log[i].logger = "logger" /\ log[i].msg.url = dl.url

(***************************************************************************)
(* get_ordered_uniques (utils.py 191-194)                                  *)
(***************************************************************************)
\* Bound on the length of the input sequence.
MaxSeqLen == 3

\* Python objects: two integers, None, and two distinct float('nan') objects.
\* v is the value of an integer and the identity of a NaN; a NaN equals
\* nothing, itself included, and small integers and None are singletons.
IntObj(n) == [kind |-> "int", v |-> n]
NanObj(n) == [kind |-> "nan", v |-> n]
NoneObj == [kind |-> "none", v |-> 0]
Objects == {IntObj(1), IntObj(2), NanObj(1), NanObj(2), NoneObj}

\* pd.isna(x) on a scalar
IsNa(x) == x.kind \in {"nan", "none"}

\* x in seen: some member is x (identity) or equals x (==).
PyIs(x, y) == x.kind = y.kind /\ x.v = y.v
PyEq(x, y) == x.kind # "nan" /\ x.kind = y.kind /\ x.v = y.v
InSet(x, seen) == \E y \in seen : PyIs(y, x) \/ PyEq(y, x)

\* A filter that only de-duplicates, without the pd.isna test.
KeepsUnseen(x, seen) == ~InSet(x, seen)

\* The filter of line 194: not (x in seen or seen_add(x) or pd.isna(x)).
\* seen.add returns None, so the chain goes on to pd.isna after adding.
Keeps(x, seen) == ~(InSet(x, seen) \/ IsNa(x))

UniquesFrame(seq) == [pc |-> "loop", seq |-> seq, x |-> 1, seen |-> {}, out |-> <<>>]

\* One element of the list comprehension.
UniquesStep ==
    /\ uq.pc = "loop"
    /\ uq.x <= Len(uq.seq)
    /\ LET x == uq.seq[uq.x]
       IN  uq' = [uq EXCEPT !.x = @ + 1,
                            !.seen = IF InSet(x, @) THEN @ ELSE @ \cup {x},
                            !.out = IF Keeps(x, uq.seen) THEN Append(@, x) ELSE @]
    /\ UNCHANGED <<rp, mg, mf, dl, ids, sx, log, fs>>

UniquesReturn ==
    /\ uq.pc = "loop"
    /\ uq.x > Len(uq.seq)
    /\ uq' = [uq EXCEPT !.pc = "returned"]
    /\ UNCHANGED <<rp, mg, mf, dl, ids, sx, log, fs>>

InitUniques ==
    /\ uq \in {UniquesFrame(q) : q \in SeqsOf(Objects, 0, MaxSeqLen)}
    /\ fs = NoFiles
    /\ rp = Idle /\ mg = Idle /\ mf = Idle /\ dl = Idle /\ ids = Idle /\ sx = Idle
    /\ log = <<>>

NextUniques ==
    \/ UniquesStep
    \/ UniquesReturn

SpecUniques == InitUniques /\ [][NextUniques]_vars

\* The elements of seq at their first occurrence under key, in order.
FirstOccurrences(seq, key(_)) ==
    SelectIdx(seq, {i \in DOMAIN seq : \A j \in 1..(i - 1) : key(seq[j]) # key(seq[i])}, 1)

\* All missing values are one and the same element.
MissingAsOne(x) == IF IsNa(x) THEN NoneObj ELSE x

\* The elements of seq that are not missing.
NonMissing(seq) == SelectIdx(seq, {i \in DOMAIN seq : ~IsNa(seq[i])}, 1)

\* C8 as stated: each distinct element once, in first-occurrence order, the
\* missing values counting as one element that is kept where it first occurs.
C8_MissingKeptOnce ==
    uq.pc = "returned" => uq.out = FirstOccurrences(uq.seq, MissingAsOne)

\* C8 amended: each distinct non-missing element once, in first-occurrence
\* order; every missing value is dropped, the first one included.
C8_MissingDropped ==
    uq.pc = "returned"
        => LET id(x) == x IN uq.out = FirstOccurrences(NonMissing(uq.seq), id)

\* [1, nan, 1] gives [1].
C8_Witness ==
    /\ uq.pc = "returned"
    /\ uq.seq = <<IntObj(1), NanObj(1), IntObj(1)>>
    /\ uq.out = <<IntObj(1)>>

(***************************************************************************)
(* remove_prefix, remove_suffix (utils.py 179-188)                         *)
(***************************************************************************)
\* Bound on the length of a text and of a prefix or suffix.
MaxStrLen == 2

Strings == SeqsOf({"a", "b"}, 0, MaxStrLen)

\* text.startswith(prefix), text.endswith(suffix)
StartsWith(text, prefix) == OccursAt(text, prefix, 1)
EndsWith(text, suffix) == OccursAt(text, suffix, Len(text) - Len(suffix) + 1)

remove_prefix(text, prefix) ==
    IF StartsWith(text, prefix) THEN SliceFrom(text, Len(prefix)) ELSE text

remove_suffix(text, suffix) ==
    IF EndsWith(text, suffix) THEN SliceTo(text, (-1) * Len(suffix)) ELSE text

AffixFrame(fn, text, affix) ==
    [pc |-> "call", fn |-> fn, text |-> text, affix |-> affix, ret |-> <<>>]

RemovePrefix ==
    /\ sx.pc = "call"
    /\ sx.fn = "remove_prefix"
    /\ sx' = [sx EXCEPT !.pc = "returned", !.ret = remove_prefix(sx.text, sx.affix)]
    /\ UNCHANGED <<rp, mg, mf, dl, ids, uq, log, fs>>

RemoveSuffix ==
    /\ sx.pc = "call"
    /\ sx.fn = "remove_suffix"
    /\ sx' = [sx EXCEPT !.pc = "returned", !.ret = remove_suffix(sx.text, sx.affix)]
    /\ UNCHANGED <<rp, mg, mf, dl, ids, uq, log, fs>>

InitAffix ==
    /\ sx \in {AffixFrame(f, t, a) :
                 f \in {"remove_prefix", "remove_suffix"}, t \in Strings, a \in Strings}
    /\ fs = NoFiles
    /\ rp = Idle /\ mg = Idle /\ mf = Idle /\ dl = Idle /\ ids = Idle /\ uq = Idle
    /\ log = <<>>

NextAffix ==
    \/ RemovePrefix
    \/ RemoveSuffix

SpecAffix == InitAffix /\ [][NextAffix]_vars
\* C9: remove_prefix(p + s, p) = s and remove_suffix(s + p, p) = s for all
\* texts, the empty one included, and a text that does not start (end) with
\* p is returned unchanged.
C9_AffixRemoved ==
    sx.pc = "returned"
        => IF sx.fn = "remove_prefix"
           THEN IF StartsWith(sx.text, sx.affix)
                THEN sx.affix \o sx.ret = sx.text
                ELSE sx.ret = sx.text
           ELSE IF EndsWith(sx.text, sx.affix)
                THEN sx.ret \o sx.affix = sx.text
                ELSE sx.ret = sx.text

(***************************************************************************)
(* re.findall for the patterns of the identifier extractors: a pattern is  *)
(* a sequence of character classes, each taken once, or repeated greedily  *)
(* (star, plus) or lazily (lazy star); the match at a position is the      *)
(* first one the backtracking search of Python's re finds.                 *)
(***************************************************************************)
Digit == {"0", "1", "2", "3", "4", "5", "6", "7", "8", "9"}
Upper == {"A", "B", "C", "D", "E", "F", "G", "H", "I", "J", "K", "L", "M", "N", "O", "P", "Q", "R", "S", "T", "U", "V", "W", "X", "Y", "Z"}
Lower == {"a", "b", "c", "d", "e", "f", "g", "h", "i", "j", "k", "l", "m", "n", "o", "p", "q", "r", "s", "t", "u", "v", "w", "x", "y", "z"}
Punct == {" ", ",", ";", ":", ".", "_", "-", "+", "[", "]", "(", ")", "\n"}
Alphabet == Digit \cup Upper \cup Lower \cup Punct
\* '.' matches every character but the newline.
Dot == Alphabet \ {"\n"}

Lit(c) == [cls |-> {c}, q |-> "1"]
One(cls) == [cls |-> cls, q |-> "1"]
Star(cls) == [cls |-> cls, q |-> "*"]
Plus(cls) == [cls |-> cls, q |-> "+"]
LazyStar(cls) == [cls |-> cls, q |-> "*?"]

RECURSIVE RunLen(_, _, _)
\* How many characters of s from position pos on are in cls.
RunLen(s, pos, cls) ==
    IF pos <= Len(s) /\ s[pos] \in cls THEN 1 + RunLen(s, pos + 1, cls) ELSE 0

\* The repetition counts an item tries, in the order it tries them.
Counts(q, run) ==
    CASE q = "1" -> IF run >= 1 THEN <<1>> ELSE <<>>
      [] q = "*" -> [i \in 1..(run + 1) |-> run + 1 - i]
      [] q = "+" -> [i \in 1..run |-> run + 1 - i]
      [] q = "*?" -> [i \in 1..(run + 1) |-> i - 1]

RECURSIVE MatchEnd(_, _, _, _)
RECURSIVE TryCounts(_, _, _, _, _)
\* Items k.. of pat matched at pos: the position after the match, or 0.
MatchEnd(pat, k, s, pos) ==
    IF k > Len(pat)
    THEN pos
    ELSE TryCounts(pat, k, s, pos, Counts(pat[k].q, RunLen(s, pos, pat[k].cls)))

TryCounts(pat, k, s, pos, counts) ==
    IF counts = <<>>
    THEN 0
    ELSE LET e == MatchEnd(pat, k + 1, s, pos + Head(counts))
         IN  IF e # 0 THEN e ELSE TryCounts(pat, k, s, pos, Tail(counts))

RECURSIVE FindAllFrom(_, _, _)
FindAllFrom(pat, s, pos) ==
    IF pos > Len(s)
    THEN <<>>
    ELSE LET e == MatchEnd(pat, 1, s, pos)
         IN  IF e = 0
             THEN FindAllFrom(pat, s, pos + 1)
             ELSE <<SubSeq(s, pos, e - 1)>> \o
                  FindAllFrom(pat, s, IF e = pos THEN pos + 1 ELSE e)

\* re.findall(pat, s): the non-overlapping matches, left to right.
FindAll(pat, s) == FindAllFrom(pat, s, 1)

\* r'\[EC:\d*.\d*.\d*.\d*\]'
KeggEcPattern ==
    <<Lit("["), Lit("E"), Lit("C"), Lit(":"), Star(Digit), One(Dot), Star(Digit),
      One(Dot), Star(Digit), One(Dot), Star(Digit), Lit("]")>>
\* r'\(EC [\d+\.]+[\d-]\)'
CazyEcPattern ==
    <<Lit("("), Lit("E"), Lit("C"), Lit(" "), Plus(Digit \cup {"+", "."}),
      One(Digit \cup {"-"}), Lit(")")>>
\* r'\[[A-Z]*\d*?\]'
CazyLegacyPattern == <<Lit("["), Star(Upper), LazyStar(Digit), Lit("]")>>
\* r'\[PF\d\d\d\d\d.\d*\]'
PfamPattern ==
    <<Lit("["), Lit("P"), Lit("F"), One(Digit), One(Digit), One(Digit), One(Digit),
      One(Digit), One(Dot), Star(Digit), Lit("]")>>

(***************************************************************************)
(* get_ids_from_annotation (utils.py 103-137) and get_ids_from_row         *)
(* (utils.py 141-170)                                                      *)
(***************************************************************************)
\* Bounds on the annotation table: its recognized columns and its rows.
MaxCols == 2
MaxRows == 1

\* The recognized columns, in the order the extractors visit them.
Columns ==
    <<"kegg_genes_id", "ko_id", "kegg_id", "kegg_hit", "peptidase_family",
      "cazy_id", "cazy_hits", "pfam_hits">>
ColumnNames == Range(Columns)

\* A cell is NaN / None (None here) or a text, the empty text included.
SampleText(col) ==
    CASE col = "kegg_genes_id" -> <<"g", "1", ",", " ", "g", "2">>
      [] col = "ko_id" -> <<"K", "1", ",", "K", "2">>
      [] col = "kegg_id" -> <<"K", "1", ",", " ", "K", "3">>
      [] col = "kegg_hit" -> <<"x", " ", "[", "E", "C", ":", "1", ".", "2", ".", "3", ".", "4", "]">>
      [] col = "peptidase_family" -> <<"M", "1", ";", "S", "9">>
      [] col = "cazy_id" -> <<"G", "H", "5", "_", "1", ";", " ", "G", "H", "5", "_", "2", ";", " ", "G", "T", "2">>
      [] col = "cazy_hits" -> <<"y", " ", "(", "E", "C", " ", "3", ".", "2", ".", "1", ".", "4", ")", " ", "[", "G", "H", "5", "]">>
      [] col = "pfam_hits" -> <<"z", " ", "[", "P", "F", "0", "0", "0", "0", "1", ".", "2", "0", "]">>
CellValues(col) == {None, Some(<<>>), Some(SampleText(col))}
AllCells == UNION {CellValues(c) : c \in ColumnNames}

ColumnSets == {S \in SUBSET ColumnNames : Cardinality(S) <= MaxCols}
RowsOver(S) == {r \in [S -> AllCells] : \A c \in S : r[c] \in CellValues(c)}

\* A guard that takes every column to be there.
HasColumnAlways(columns, col) == TRUE

\* 'col' in frame, 'col' in row
HasColumn(columns, col) == col \in columns

\* pd.isna(cell)
IsNaCell(cell) == IsNone(cell)

\* frame.col.dropna(): the texts of the column, in row order.
DropNa(frame, col) ==
    LET cells == [i \in DOMAIN frame.rows |-> frame.rows[i][col]]
        kept == SelectIdx(cells, {i \in DOMAIN cells : ~IsNaCell(cells[i])}, 1)
    IN  [i \in DOMAIN kept |-> Val(kept[i])]

\* [f(x) for x in xs]
Map(xs, f(_)) == [i \in DOMAIN xs |-> f(xs[i])]

\* [y for x in xs for y in f(x)]
FlatMap(xs, f(_)) == Concat([i \in DOMAIN xs |-> f(xs[i])])

\* s.split(sep)[0]
BeforeFirst(s, sep) == Split(s, <<sep>>)[1]

\* The orders in which a set can be iterated.
Orders(S) ==
    {f \in [1..Cardinality(S) -> S] : \A i, j \in 1..Cardinality(S) : f[i] = f[j] => i = j}

\* [j.strip() for j in i.split(sep)]   (lines 107, 110, 114, 121)
SplitStripped(i, sep) == LET f(j) == Strip(j) IN Map(Split(i, sep), f)

\* [i[1:-1] for i in re.findall(r'\[EC:\d*.\d*.\d*.\d*\]', kegg_hit)]   (lines 118, 155)
KeggEcIds(kegg_hit) == LET f(i) == Slice(i, 1, -1) IN Map(FindAll(KeggEcPattern, kegg_hit), f)

\* set([k.split('_')[0] for k in i.split('; ')])   (line 124)
CazyIdSet(i) == LET f(k) == BeforeFirst(k, "_") IN Range(Map(Split(i, <<";", " ">>), f))

\* f"{j[1:3]}:{j[4:-1]}" for j in re.findall(r'\(EC [\d+\.]+[\d-]\)', i)   (lines 127-128)
CazyEcIds(i) ==
    LET f(j) == Slice(j, 1, 3) \o <<":">> \o Slice(j, 4, -1)
    IN  Map(FindAll(CazyEcPattern, i), f)

\* [i[1:-1].split('_')[0] for i in re.findall(r'\[[A-Z]*\d*?\]', cazy_hit)]   (lines 132, 163)
CazyLegacyIds(cazy_hit) ==
    LET f(i) == BeforeFirst(Slice(i, 1, -1), "_")
    IN  Map(FindAll(CazyLegacyPattern, cazy_hit), f)

\* [j[1:-1].split('.')[0] for j in re.findall(r'\[PF\d\d\d\d\d.\d*\]', i)]   (lines 135-136, 168-169)
PfamIds(i) ==
    LET f(j) == BeforeFirst(Slice(j, 1, -1), ".")
    IN  Map(FindAll(PfamPattern, i), f)

RECURSIVE CazyIdLists(_)
\* Line 124 over the cells of the column: each cell's set, in any order.
CazyIdLists(cells) ==
    IF cells = <<>>
    THEN {<<>>}
    ELSE {o \o rest : o \in Orders(CazyIdSet(Head(cells))), rest \in CazyIdLists(Tail(cells))}

\* What the block of a column appends to id_list in get_ids_from_annotation,
\* given the column's texts: the lists it can append (one, but for the order
\* in which line 124 iterates a set).
AnnotationIds(col, cells) ==
    CASE col \in {"kegg_genes_id", "ko_id", "kegg_id"} ->
           LET f(i) == SplitStripped(i, <<",">>) IN {FlatMap(cells, f)}
      [] col = "kegg_hit" ->
           LET f(i) == KeggEcIds(i) IN {FlatMap(cells, f)}
      [] col = "peptidase_family" ->
           LET f(i) == SplitStripped(i, <<";">>) IN {FlatMap(cells, f)}
      [] col = "cazy_id" -> CazyIdLists(cells)
      [] col = "cazy_hits" ->
           LET f(i) == CazyEcIds(i)
               g(i) == CazyLegacyIds(i)
           IN  {FlatMap(cells, f) \o FlatMap(cells, g)}
      [] col = "pfam_hits" ->
           LET f(i) == PfamIds(i) IN {FlatMap(cells, f)}

\* What the block of a column does in get_ids_from_row on a text cell: the
\* identifiers it appends and the exception it ends with, if any.
RowIds(col, cell) ==
    CASE col = "kegg_genes_id" ->
           \* id_list += row['kegg_genes_id']: a str extends a list by its characters
           [ids |-> [i \in DOMAIN cell |-> <<cell[i]>>], exc |-> ""]
      [] col \in {"ko_id", "kegg_id"} -> [ids |-> Split(cell, <<",">>), exc |-> ""]
      [] col = "kegg_hit" -> [ids |-> KeggEcIds(cell), exc |-> ""]
      [] col = "peptidase_family" -> [ids |-> Split(cell, <<";">>), exc |-> ""]
      [] col = "cazy_id" ->
           \* row[cazy_id]: the name cazy_id is not defined
           [ids |-> <<>>, exc |-> "NameError"]
      [] col = "cazy_hits" ->
           \* line 163 appends, then line 164 reads the undefined name frame
           [ids |-> CazyLegacyIds(cell), exc |-> "NameError"]
      [] col = "pfam_hits" -> [ids |-> PfamIds(cell), exc |-> ""]

\* Counter(id_list)
Counter(id_list) ==
    [x \in Range(id_list) |-> Cardinality({i \in DOMAIN id_list : id_list[i] = x})]

\* The block after col, or the return statement.
NextBlock(col) ==
    LET k == CHOOSE i \in DOMAIN Columns : Columns[i] = col
    IN  IF k = Len(Columns) THEN "return" ELSE Columns[k + 1]

AnnotationFrame(frame) ==
    [fn |-> "get_ids_from_annotation", pc |-> Columns[1], frame |-> frame,
     id_list |-> <<>>, exc |-> "", ret |-> None]

RowFrame(row) ==
    [fn |-> "get_ids_from_row", pc |-> Columns[1], row |-> row,
     id_list |-> <<>>, exc |-> "", ret |-> None]

\* One `if 'col' in frame:` block of lines 106-136.  frame.col on a table
\* without the column is an AttributeError.
AnnotationBlock ==
    /\ ids.pc \in ColumnNames
    /\ ids.fn = "get_ids_from_annotation"
    /\ IF ~HasColumn(ids.frame.columns, ids.pc)
       THEN ids' = [ids EXCEPT !.pc = NextBlock(ids.pc)]
       ELSE IF ids.pc \notin ids.frame.columns
       THEN ids' = Raise(ids, "AttributeError")
       ELSE \E l \in AnnotationIds(ids.pc, DropNa(ids.frame, ids.pc)) :
               ids' = [ids EXCEPT !.pc = NextBlock(ids.pc), !.id_list = @ \o l]
    /\ UNCHANGED <<rp, mg, mf, dl, uq, sx, log, fs>>

\* Line 137
AnnotationReturn ==
    /\ ids.pc = "return"
    /\ ids.fn = "get_ids_from_annotation"
    /\ ids' = [ids EXCEPT !.pc = "returned", !.ret = Some(Counter(ids.id_list))]
    /\ UNCHANGED <<rp, mg, mf, dl, uq, sx, log, fs>>

\* One `if 'col' in row and not pd.isna(row['col']):` block of lines 144-169.
\* row['col'] on a row without the column is a KeyError.
RowBlock ==
    /\ ids.pc \in ColumnNames
    /\ ids.fn = "get_ids_from_row"
    /\ ids' = IF ~HasColumn(DOMAIN ids.row, ids.pc)
              THEN [ids EXCEPT !.pc = NextBlock(ids.pc)]
              ELSE IF ids.pc \notin DOMAIN ids.row
              THEN Raise(ids, "KeyError")
              ELSE IF IsNaCell(ids.row[ids.pc])
              THEN [ids EXCEPT !.pc = NextBlock(ids.pc)]
              ELSE LET r == RowIds(ids.pc, Val(ids.row[ids.pc]))
                   IN  IF r.exc # ""
                       THEN Raise([ids EXCEPT !.id_list = @ \o r.ids], r.exc)
                       ELSE [ids EXCEPT !.pc = NextBlock(ids.pc), !.id_list = @ \o r.ids]
    /\ UNCHANGED <<rp, mg, mf, dl, uq, sx, log, fs>>

\* Line 170
RowReturn ==
    /\ ids.pc = "return"
    /\ ids.fn = "get_ids_from_row"
    /\ ids' = [ids EXCEPT !.pc = "returned", !.ret = Some(Range(ids.id_list))]
    /\ UNCHANGED <<rp, mg, mf, dl, uq, sx, log, fs>>

InitIds ==
    /\ \E S \in ColumnSets :
          \/ \E n \in 0..MaxRows : \E rows \in [1..n -> RowsOver(S)] :
                ids = AnnotationFrame([columns |-> S, rows |-> rows])
          \/ \E row \in RowsOver(S) : ids = RowFrame(row)
    /\ fs = NoFiles
    /\ rp = Idle /\ mg = Idle /\ mf = Idle /\ dl = Idle /\ uq = Idle /\ sx = Idle
    /\ log = <<>>

NextIds ==
    \/ AnnotationBlock
    \/ AnnotationReturn
    \/ RowBlock
    \/ RowReturn

SpecIds == InitIds /\ [][NextIds]_vars

\* The recognized columns among cols, in the order of the blocks.
InOrder(cols) == SelectIdx(Columns, {k \in DOMAIN Columns : Columns[k] \in cols}, 1)

RECURSIVE AnnotationLists(_, _)
\* The id_list values get_ids_from_annotation can build from the columns cols
\* (a sequence of columns of the frame): their contributions, one after another.
AnnotationLists(frame, cols) ==
    IF cols = <<>>
    THEN {<<>>}
    ELSE {a \o b : a \in AnnotationIds(Head(cols), DropNa(frame, Head(cols))),
                   b \in AnnotationLists(frame, Tail(cols))}

\* get_ids_from_annotation(frame): the count of each identifier.
get_ids_from_annotation(frame) ==
    Counter(CHOOSE l \in AnnotationLists(frame, InOrder(frame.columns)) : TRUE)

RECURSIVE RowList(_, _)
\* The id_list get_ids_from_row builds from the columns cols of the row.
RowList(row, cols) ==
    IF cols = <<>>
    THEN <<>>
    ELSE (IF IsNaCell(row[Head(cols)]) THEN <<>> ELSE RowIds(Head(cols), Val(row[Head(cols)])).ids)
         \o RowList(row, Tail(cols))

\* C3: for every row, get_ids_from_row completes and returns exactly the
\* identifiers that get_ids_from_annotation counts in the one-row table made
\* of that row.
C3_RowMatchesAnnotation ==
    (ids.fn = "get_ids_from_row" /\ ids.pc \in {"returned", "raised"})
        => /\ ids.pc = "returned"
           /\ Val(ids.ret) =
                DOMAIN get_ids_from_annotation([columns |-> DOMAIN ids.row, rows |-> <<ids.row>>])

\* C4: an absent recognized column never causes an error and contributes
\* nothing.  In both extractors no lookup of a missing column ever fails, the
\* id_list that reaches the return statement is the contributions of the
\* present columns, one after another, the result is built from that list,
\* and it is empty for an input without any recognized column.
C4_AbsentColumnsSkipped ==
    IF ids.fn = "get_ids_from_annotation"
    THEN /\ ids.exc = ""
         /\ ids.pc \in {"return", "returned"}
               => ids.id_list \in AnnotationLists(ids.frame, InOrder(ids.frame.columns))
         /\ ids.pc = "returned" => Val(ids.ret) = Counter(ids.id_list)
         /\ (ids.pc = "returned" /\ ids.frame.columns = {}) => DOMAIN Val(ids.ret) = {}
    ELSE /\ ids.exc \notin {"KeyError", "AttributeError"}
         /\ ids.pc \in {"return", "returned"}
               => ids.id_list = RowList(ids.row, InOrder(DOMAIN ids.row))
         /\ ids.pc = "returned" => Val(ids.ret) = Range(ids.id_list)
         /\ (ids.pc = "returned" /\ DOMAIN ids.row = {}) => Val(ids.ret) = {}

\* A table with the one column kegg_hit: the seven other blocks were passed
\* over and the result is the count of the column's EC number.
C4_Witness ==
    /\ ids.fn = "get_ids_from_annotation"
    /\ ids.pc = "returned"
    /\ ids.frame.columns = {"kegg_hit"}
    /\ DOMAIN Val(ids.ret) = {<<"E", "C", ":", "1", ".", "2", ".", "3", ".", "4">>}

\* The frame with its empty cells made missing.
BlankAsMissing(frame) ==
    [frame EXCEPT !.rows =
        [i \in DOMAIN frame.rows |->
            [c \in frame.columns |->
                IF frame.rows[i][c] = Some(<<>>) THEN None ELSE frame.rows[i][c]]]]

\* C10: a row whose cell is missing or empty is skipped for that column, so
\* the count of an identifier is the number of its occurrences in the
\* non-empty cells of the table.
C10_EmptyCellsSkipped ==
    (ids.fn = "get_ids_from_annotation" /\ ids.pc = "returned")
        => Val(ids.ret) = get_ids_from_annotation(BlankAsMissing(ids.frame))

(***************************************************************************)
(* The module as a whole: one call of any of the functions.                *)
(***************************************************************************)
Init ==
    \/ InitRunProcess
    \/ InitMultigrep
    \/ InitMergeFiles
    \/ InitDownload
    \/ InitUniques
    \/ InitAffix
    \/ InitIds

Next ==
    \/ NextRunProcess
    \/ NextMultigrep
    \/ NextMergeFiles
    \/ NextDownload
    \/ NextUniques
    \/ NextAffix
    \/ NextIds

Spec == Init /\ [][Next]_vars
====
